---- MODULE Spec2Model ----
(***************************************************************************)
(* The DebeziumConnector reconciler (controller.Reconcile), the record     *)
(* store it reads and writes, the owner of the record, and the Debezium    *)
(* Connect REST API it calls.  One resource key is modelled; a reconcile   *)
(* pass is split at its I/O operations (store Get/Update, HTTP calls) so   *)
(* that the owner and the upstream can act between them.                    *)
(***************************************************************************)
EXTENDS Integers, Sequences, FiniteSets, TLC

VARIABLES
    record,     \* the stored DebeziumConnector (host, config, deletion flag, finalizer)
    upstream,   \* connectors on the Debezium hosts: <<host, name>> -> slot
    pc,         \* position of the running Reconcile pass ("idle" between passes)
    dbc,        \* the pass's local copy of the record (dbc in Reconcile)
    stale,      \* the stored record changed since the pass loaded dbc (resourceVersion differs)
    loaded,     \* the record as the pass loaded it
    calls,      \* HTTP calls the current (or last) pass issued, in order
    writes,     \* store writes (r.Update) the current (or last) pass attempted
    result,     \* what the last pass returned: ctrl.Result and error
    made,       \* slots in which a create/update of a pass took effect for the current record
    oob,        \* an out-of-band change of the upstream has happened
    cleanRun,   \* since the record was created over an absent connector: only successful passes
    nPasses,    \* passes completed in the clean run
    nCreate,    \* create calls issued in the clean run
    nUpdate,    \* update calls issued in the clean run
    HTTPClient, \* the reconciler's HTTPClient field: "nil", "default" (Timeout 10 s) or "manager"
    cancelledAt,\* 0, or the number of the external call in flight when the pass context was cancelled
    getErr,     \* what r.Get of the last pass returned: "", "NotFound" or "Other"
    calm,       \* TRUE once the owner has stopped changing the record and every request is answered
    oobLeft,    \* out-of-band changes still to come once calm
    boot,       \* certificate bootstrap: the stored secret and the operator processes starting up
    mem,        \* a DebeziumConnector object, its DeepCopy and the memory they point into
    probe,      \* one application of a helper to an input, for the helper-level properties
    adopted     \* "yes" once a create/update of a pass succeeded for the record, "cleaned" after a confirmed delete

vars == <<record, upstream, pc, dbc, stale, loaded, calls, writes, result,
          made, oob, cleanRun, nPasses, nCreate, nUpdate, adopted, probe,
          calm, oobLeft, HTTPClient, cancelledAt, getErr, boot, mem>>

passVars == <<pc, dbc, stale, loaded, calls, writes, result>>
ghostVars == <<made, oob, cleanRun, nPasses, nCreate, nUpdate, adopted>>

----------------------------------------------------------------------------
(* Bounds *)

MaxCleanPasses == 3

\* out-of-band changes made after the record and the upstream have settled
MaxCalmOob == 1

----------------------------------------------------------------------------
(* Values *)

Hosts == {"h1"}
Names == {"c1", "c2"}

EmptyMap == [k \in {} |-> ""]

\* m[k] of a Go map[string]string: the zero value "" when the key is missing
Lookup(m, k) == IF k \in DOMAIN m THEN m[k] ELSE ""

CfgA == [k \in {"name", "connector.class", "tasks.max"} |->
            CASE k = "name" -> "c1" [] k = "connector.class" -> "mysql" [] OTHER -> "1"]
CfgB == [k \in {"name", "connector.class", "tasks.max"} |->
            CASE k = "name" -> "c1" [] k = "connector.class" -> "mysql" [] OTHER -> "2"]
CfgC == [k \in {"name", "connector.class"} |->
            CASE k = "name" -> "c2" [] OTHER -> "mysql"]
CfgNoName == [k \in {"connector.class"} |-> "mysql"]
CfgNoClass == [k \in {"name"} |-> "c1"]

\* the configs an owner submits
OwnerConfigs == {CfgA, CfgB, CfgC, CfgNoName, CfgNoClass}
OwnerHosts == Hosts \cup {""}

\* status.phase "" is a status that was never written
NoRecord == [present |-> FALSE, host |-> "", config |-> EmptyMap,
             deleting |-> FALSE, finalizer |-> FALSE, phase |-> ""]

NoSlot == [present |-> FALSE, config |-> EmptyMap]

Slots == Hosts \X Names

\* the connector s on the Debezium host, if any
Connector(s) == IF s \in Slots THEN upstream[s] ELSE NoSlot

NoResult == [done |-> FALSE, err |-> FALSE, requeueAfter |-> 0]

----------------------------------------------------------------------------
(* util.ConfigsEqual *)

\* the revision that re-applies the config whenever the connector exists
ConfigsEqualNever(a, b) == FALSE

\* a comparison without the length check
ConfigsEqualSubset(a, b) ==
    \A k \in DOMAIN a : k \in DOMAIN b /\ b[k] = a[k]

ConfigsEqual(a, b) ==
    IF Cardinality(DOMAIN a) # Cardinality(DOMAIN b)
    THEN FALSE
    ELSE \A k \in DOMAIN a : k \in DOMAIN b /\ b[k] = a[k]

----------------------------------------------------------------------------
(* The HTTP helpers of the reconciler.  A response is [status, config];    *)
(* status 0 stands for a transport failure (HTTPClient returned an error:  *)
(* connection refused, timeout, cancelled context).                         *)

TransportFailure == 0
StatusOK == 200
StatusCreated == 201
StatusNoContent == 204
StatusNotFound == 404

\* an existence check that takes every answer but 200 for "absent"
connectorExistsLax(status) ==
    IF status = TransportFailure THEN [exists |-> FALSE, err |-> TRUE]
    ELSE IF status = StatusOK THEN [exists |-> TRUE, err |-> FALSE]
    ELSE [exists |-> FALSE, err |-> FALSE]

\* connectorExists: (exists, err)
connectorExists(status) ==
    IF status = TransportFailure THEN [exists |-> FALSE, err |-> TRUE]
    ELSE IF status = StatusOK THEN [exists |-> TRUE, err |-> FALSE]
    ELSE IF status = StatusNotFound THEN [exists |-> FALSE, err |-> FALSE]
    ELSE [exists |-> FALSE, err |-> TRUE]

\* a decode that loses the body
getDebeziumConnectorConfigDrop(status, body) ==
    IF status # StatusOK THEN [config |-> EmptyMap, err |-> TRUE]
    ELSE [config |-> EmptyMap, err |-> FALSE]

\* getDebeziumConnectorConfig: (config, err)
getDebeziumConnectorConfig(status, body) ==
    IF status = TransportFailure THEN [config |-> EmptyMap, err |-> TRUE]
    ELSE IF status # StatusOK THEN [config |-> EmptyMap, err |-> TRUE]
    ELSE [config |-> body, err |-> FALSE]

\* a payload without the connector name
createRequestNoName(host, config) ==
    [op |-> "create", host |-> host, name |-> "",
     body |-> [name |-> "", config |-> config]]

\* createDebeziumConnector: the request it sends
createRequest(host, config) ==
    [op |-> "create", host |-> host, name |-> "",
     body |-> [name |-> Lookup(config, "name"), config |-> config]]

\* a create that accepts 201 Created only
createDebeziumConnectorStrict(status) ==
    IF status = TransportFailure THEN TRUE
    ELSE status # StatusCreated

\* createDebeziumConnector: TRUE when it returns an error
createDebeziumConnector(status) ==
    IF status = TransportFailure THEN TRUE
    ELSE status # StatusCreated /\ status # StatusOK

\* a PUT that carries an empty body
updateRequestEmpty(host, config) ==
    [op |-> "update", host |-> host, name |-> Lookup(config, "name"),
     body |-> [name |-> "", config |-> EmptyMap]]

\* updateDebeziumConnector: the request it sends
updateRequest(host, config) ==
    [op |-> "update", host |-> host, name |-> Lookup(config, "name"),
     body |-> [name |-> "", config |-> config]]

\* an update that also accepts 201 Created
updateDebeziumConnectorLenient(status) ==
    IF status = TransportFailure THEN TRUE
    ELSE status # StatusOK /\ status # StatusCreated

\* updateDebeziumConnector: TRUE when it returns an error
updateDebeziumConnector(status) ==
    IF status = TransportFailure THEN TRUE
    ELSE status # StatusOK

\* a delete that takes "not found" for success
deleteDebeziumConnectorLenient(status) ==
    IF status = TransportFailure THEN TRUE
    ELSE status # StatusNoContent /\ status # StatusOK /\ status # StatusNotFound

\* deleteDebeziumConnector: TRUE when it returns an error
deleteDebeziumConnector(status) ==
    IF status = TransportFailure THEN TRUE
    ELSE status # StatusNoContent /\ status # StatusOK

\* a request without a body (GET, DELETE)
bareRequest(op, host, name) ==
    [op |-> op, host |-> host, name |-> name,
     body |-> [name |-> "", config |-> EmptyMap]]

----------------------------------------------------------------------------
(* The Debezium Connect REST API as the reconciler sees it.  s is the      *)
(* connector addressed, <<host, name>>, and present whether it exists.     *)
(* Each reply is [status, effect]: the status the client receives and      *)
(* whether the request changed the connector; a request that times out may *)
(* or may not have been applied.  No connector has the empty name: a       *)
(* request that carries it creates nothing, and what a lookup of           *)
(* "/connectors/" answers is left open.                                     *)

Failures == {[status |-> 500, effect |-> FALSE],
             [status |-> TransportFailure, effect |-> FALSE]}

\* the replies left once every request is answered
Answered(replies) ==
    IF calm THEN {r \in replies : r.status \notin {TransportFailure, 500}} ELSE replies

ExistsReplies(s, present) ==
    Failures \cup
    IF s[2] = ""
    THEN {[status |-> StatusOK, effect |-> FALSE], [status |-> StatusNotFound, effect |-> FALSE]}
    ELSE {[status |-> IF present THEN StatusOK ELSE StatusNotFound, effect |-> FALSE]}

GetConfigReplies(s, present) ==
    Failures \cup
    {[status |-> IF present THEN StatusOK ELSE StatusNotFound, effect |-> FALSE]}

CreateReplies(s, present) ==
    Failures \cup
    IF s[2] = "" THEN {[status |-> 400, effect |-> FALSE]}
    ELSE IF present
    THEN {[status |-> 409, effect |-> FALSE]}
    ELSE {[status |-> StatusCreated, effect |-> TRUE],
          [status |-> TransportFailure, effect |-> TRUE]}

PutReplies(s, present) ==
    Failures \cup
    IF s[2] = "" THEN {[status |-> StatusNotFound, effect |-> FALSE]}
    ELSE {[status |-> IF present THEN StatusOK ELSE StatusCreated, effect |-> TRUE],
          [status |-> TransportFailure, effect |-> TRUE]}

DeleteReplies(s, present) ==
    Failures \cup
    IF present
    THEN {[status |-> StatusNoContent, effect |-> TRUE],
          [status |-> TransportFailure, effect |-> TRUE]}
    ELSE {[status |-> StatusNotFound, effect |-> FALSE]}

----------------------------------------------------------------------------
(* The validation webhook (ValidateCreate / ValidateUpdate).  vstatus and  *)
(* verrors are the answer of the upstream validate endpoint.               *)

\* a gate that does not look at the host
validateDebeziumConnectorAnyHost(host, config, vstatus, verrors) ==
    LET local == IF "connector.class" \notin DOMAIN config
                 THEN {"connector.class"} ELSE {}
        sent == [name |-> Lookup(config, "name"), config |-> config]
        none == [name |-> "", config |-> EmptyMap]
    IN  IF local # {}
        THEN [admitted |-> FALSE, fields |-> local, called |-> FALSE, payload |-> none]
        ELSE IF vstatus # StatusOK
        THEN [admitted |-> FALSE, fields |-> {}, called |-> TRUE, payload |-> sent]
        ELSE IF verrors # {}
        THEN [admitted |-> FALSE, fields |-> verrors, called |-> TRUE, payload |-> sent]
        ELSE [admitted |-> TRUE, fields |-> {}, called |-> TRUE, payload |-> sent]

\* a gate that drops the errors the upstream reports
validateDebeziumConnectorDeaf(host, config, vstatus, verrors) ==
    LET local == (IF host = "" THEN {"debeziumHost"} ELSE {}) \cup
                 (IF "connector.class" \notin DOMAIN config
                  THEN {"connector.class"} ELSE {})
        sent == [name |-> Lookup(config, "name"), config |-> config]
        none == [name |-> "", config |-> EmptyMap]
    IN  IF local # {}
        THEN [admitted |-> FALSE, fields |-> local, called |-> FALSE, payload |-> none]
        ELSE IF vstatus # StatusOK
        THEN [admitted |-> FALSE, fields |-> {}, called |-> TRUE, payload |-> sent]
        ELSE [admitted |-> TRUE, fields |-> {}, called |-> TRUE, payload |-> sent]

validateDebeziumConnector(host, config, vstatus, verrors) ==
    LET local == (IF host = "" THEN {"debeziumHost"} ELSE {}) \cup
                 (IF "connector.class" \notin DOMAIN config
                  THEN {"connector.class"} ELSE {})
        sent == [name |-> Lookup(config, "name"), config |-> config]
        none == [name |-> "", config |-> EmptyMap]
    IN  IF local # {}
        THEN [admitted |-> FALSE, fields |-> local, called |-> FALSE, payload |-> none]
        ELSE IF vstatus = TransportFailure
        THEN [admitted |-> FALSE, fields |-> {}, called |-> TRUE, payload |-> sent]
        ELSE IF vstatus # StatusOK
        THEN [admitted |-> FALSE, fields |-> {}, called |-> TRUE, payload |-> sent]
        ELSE IF verrors # {}
        THEN [admitted |-> FALSE, fields |-> verrors, called |-> TRUE, payload |-> sent]
        ELSE [admitted |-> TRUE, fields |-> {}, called |-> TRUE, payload |-> sent]

ValidateCreate(host, config, vstatus, verrors) ==
    validateDebeziumConnector(host, config, vstatus, verrors)

\* an update gate that holds the host and the connector name fixed
ValidateUpdateFixedName(old, host, config, vstatus, verrors) ==
    IF host # old.host \/ Lookup(config, "name") # Lookup(old.config, "name")
    THEN [admitted |-> FALSE, fields |-> {"name"}, called |-> FALSE,
          payload |-> [name |-> "", config |-> EmptyMap]]
    ELSE validateDebeziumConnector(host, config, vstatus, verrors)

ValidateUpdate(old, host, config, vstatus, verrors) ==
    validateDebeziumConnector(host, config, vstatus, verrors)

ValidateStatuses == {TransportFailure, StatusOK, 500}
ValidateErrors == {{}, {"tasks.max"}}

----------------------------------------------------------------------------
(* State after construction: no record, no connector, no pass running. *)

\* the secret store and the certDir of a process before any bootstrap
NoSecret == [present |-> FALSE, data |-> EmptyMap]
NoFiles == [crt |-> "", key |-> ""]

\* operator processes started against the same store, each with its own certDir
Procs == {"p1", "p2"}

BootStart ==
    [secret |-> NoSecret, creators |-> {},
     proc |-> [p \in Procs |-> [pc |-> "start", files |-> NoFiles, view |-> NoSecret]]]

NoMem == [phase |-> "none"]

Constructed ==
    /\ boot = BootStart
    /\ record = NoRecord
    /\ upstream = [s \in Slots |-> NoSlot]
    /\ pc = "idle"
    /\ dbc = NoRecord
    /\ stale = FALSE
    /\ loaded = NoRecord
    /\ calls = <<>>
    /\ writes = <<>>
    /\ result = NoResult
    /\ made = {}
    /\ oob = FALSE
    /\ cleanRun = FALSE
    /\ nPasses = 0
    /\ nCreate = 0
    /\ nUpdate = 0
    /\ adopted = "no"
    /\ calm = FALSE
    /\ oobLeft = MaxCalmOob
    /\ cancelledAt = 0
    /\ getErr = ""

NoProbe == [kind |-> "none", done |-> FALSE]

\* main builds the reconciler with the manager's HTTP client
Init ==
    /\ Constructed
    /\ probe = NoProbe
    /\ HTTPClient = "manager"
    /\ mem = NoMem

\* the reconciler built with or without an HTTP client
InitAnyClient ==
    /\ Constructed
    /\ probe = NoProbe
    /\ HTTPClient \in {"nil", "manager"}
    /\ mem = NoMem

\* bookkeeping of the clean run: it ends with the first failed pass
Count(createInc, updateInc, finished, err) ==
    LET c == cleanRun /\ ~(finished /\ err)
    IN  /\ cleanRun' = c
        /\ nPasses' = IF c THEN nPasses + (IF finished THEN 1 ELSE 0) ELSE 0
        /\ nCreate' = IF c THEN nCreate + createInc ELSE 0
        /\ nUpdate' = IF c THEN nUpdate + updateInc ELSE 0

EndCleanRun ==
    /\ cleanRun' = FALSE
    /\ nPasses' = 0
    /\ nCreate' = 0
    /\ nUpdate' = 0

\* a store change by someone else invalidates the copy a running pass holds
Invalidate == stale' = (pc # "idle")

----------------------------------------------------------------------------
(* The owner of the record and the host store *)

OwnerCreate ==
    /\ ~calm
    /\ ~record.present
    /\ \E h \in OwnerHosts, c \in OwnerConfigs, vs \in ValidateStatuses, ve \in ValidateErrors :
          /\ ValidateCreate(h, c, vs, ve).admitted
          /\ record' = [present |-> TRUE, host |-> h, config |-> c,
                        deleting |-> FALSE, finalizer |-> FALSE, phase |-> ""]
          /\ cleanRun' = ~Connector(<<h, Lookup(c, "name")>>).present
    /\ Invalidate
    /\ made' = {}
    /\ oob' = FALSE
    /\ adopted' = "no"
    /\ nPasses' = 0 /\ nCreate' = 0 /\ nUpdate' = 0
    /\ UNCHANGED <<upstream, pc, dbc, loaded, calls, writes, result>>
    /\ UNCHANGED <<probe, calm, oobLeft, HTTPClient, cancelledAt, getErr>>
    /\ UNCHANGED <<boot, mem>>

OwnerEdit ==
    /\ ~calm
    /\ record.present
    /\ \E h \in OwnerHosts, c \in OwnerConfigs, vs \in ValidateStatuses, ve \in ValidateErrors :
          /\ <<h, c>> # <<record.host, record.config>>
          /\ ValidateUpdate(record, h, c, vs, ve).admitted
          /\ record' = [record EXCEPT !.host = h, !.config = c]
    /\ Invalidate
    /\ EndCleanRun
    /\ UNCHANGED <<upstream, pc, dbc, loaded, calls, writes, result, made, oob, adopted>>
    /\ UNCHANGED <<probe, calm, oobLeft, HTTPClient, cancelledAt, getErr>>
    /\ UNCHANGED <<boot, mem>>

\* the owner marks the record for deletion (ValidateDelete admits everything)
OwnerDelete ==
    /\ ~calm
    /\ record.present
    /\ ~record.deleting
    /\ record' = [record EXCEPT !.deleting = TRUE]
    /\ Invalidate
    /\ EndCleanRun
    /\ UNCHANGED <<upstream, pc, dbc, loaded, calls, writes, result, made, oob, adopted>>
    /\ UNCHANGED <<probe, calm, oobLeft, HTTPClient, cancelledAt, getErr>>
    /\ UNCHANGED <<boot, mem>>

\* the host store frees a record marked for deletion that carries no finalizer
HostRemove ==
    /\ record.present
    /\ record.deleting
    /\ ~record.finalizer
    /\ record' = NoRecord
    /\ Invalidate
    /\ UNCHANGED <<upstream, pc, dbc, loaded, calls, writes, result, ghostVars>>
    /\ UNCHANGED <<probe, calm, oobLeft, HTTPClient, cancelledAt, getErr>>
    /\ UNCHANGED <<boot, mem>>

----------------------------------------------------------------------------
(* Changes made directly against the Debezium host *)

Drift(c) ==
    [k \in DOMAIN c \cup {"tasks.max"} |->
        IF k = "tasks.max"
        THEN (IF Lookup(c, "tasks.max") = "1" THEN "2" ELSE "1")
        ELSE c[k]]

OobEdit ==
    /\ calm => oobLeft > 0
    /\ \E s \in Slots :
          /\ upstream[s].present
          /\ upstream' = [upstream EXCEPT ![s].config = Drift(upstream[s].config)]
    /\ oob' = TRUE
    /\ EndCleanRun
    /\ UNCHANGED <<record, passVars, made, adopted>>
    /\ oobLeft' = IF calm THEN oobLeft - 1 ELSE oobLeft
    /\ UNCHANGED <<probe, calm, HTTPClient, cancelledAt, getErr>>
    /\ UNCHANGED <<boot, mem>>

OobDelete ==
    /\ calm => oobLeft > 0
    /\ \E s \in Slots :
          /\ upstream[s].present
          /\ upstream' = [upstream EXCEPT ![s] = NoSlot]
    /\ oob' = TRUE
    /\ EndCleanRun
    /\ UNCHANGED <<record, passVars, made, adopted>>
    /\ oobLeft' = IF calm THEN oobLeft - 1 ELSE oobLeft
    /\ UNCHANGED <<probe, calm, HTTPClient, cancelledAt, getErr>>
    /\ UNCHANGED <<boot, mem>>

----------------------------------------------------------------------------
(* Reconcile *)

\* RequeueAfter of a successful non-deletion pass, in seconds
RequeueAfter == 60

\* the external calls come before the finalizer is registered
AfterGetNoFinalizer(d) ==
    IF d.deleting
    THEN (IF d.finalizer THEN "delete" ELSE "return")
    ELSE "exists"

\* the deletion branch does not look at the finalizer
AfterGetAlwaysDelete(d) ==
    IF d.deleting
    THEN "delete"
    ELSE (IF ~d.finalizer THEN "addFinalizer" ELSE "exists")

\* a pass without a deletion branch
AfterGetNoDeletion(d) ==
    IF ~d.finalizer THEN "addFinalizer" ELSE "exists"

\* a store write that does not detect a conflict
StoreUpdateBlind(obj, ok) ==
    /\ ok => record.present
    /\ (calm /\ cancelledAt = 0 /\ record.present) => ok
    /\ cancelledAt > 0 => ~ok
    /\ writes' = Append(writes, [finalizer |-> obj.finalizer, ok |-> ok])
    /\ record' = IF ok
                 THEN [record EXCEPT !.host = obj.host, !.config = obj.config,
                                     !.finalizer = obj.finalizer]
                 ELSE record

\* the first I/O of the pass after the record is loaded
AfterGet(d) ==
    IF d.deleting
    THEN (IF d.finalizer THEN "delete" ELSE "return")
    ELSE (IF ~d.finalizer THEN "addFinalizer" ELSE "exists")

\* the connector the pass addresses: dbc.Spec.DebeziumHost, dbc.Spec.Config["name"]
Target(d) == <<d.host, Lookup(d.config, "name")>>

Sent(req, status, reply) ==
    [op |-> req.op, host |-> req.host, name |-> req.name, body |-> req.body,
     status |-> status, reply |-> reply]

\* a return that never asks for a periodic re-invocation
ReturnNoRequeue(err, requeue) ==
    /\ pc' = "idle"
    /\ dbc' = NoRecord
    /\ stale' = FALSE
    /\ result' = [done |-> TRUE, err |-> err, requeueAfter |-> 0]

\* return from Reconcile
Return(err, requeue) ==
    /\ pc' = "idle"
    /\ dbc' = NoRecord
    /\ stale' = FALSE
    /\ result' = [done |-> TRUE, err |-> err, requeueAfter |-> requeue]

\* a load that reports a missing record as a failure
GetReturnStrict(e) ==
    IF e # "" THEN [returns |-> TRUE, err |-> TRUE]
    ELSE [returns |-> FALSE, err |-> FALSE]

\* what Reconcile does with the error of r.Get: return nil on NotFound,
\* return the error on any other, go on without one
GetReturn(e) ==
    IF e = "NotFound" THEN [returns |-> TRUE, err |-> FALSE]
    ELSE IF e # "" THEN [returns |-> TRUE, err |-> TRUE]
    ELSE [returns |-> FALSE, err |-> FALSE]

\* the errors r.Get can return for the key
GetErrors ==
    (IF record.present THEN {""} ELSE {"NotFound"}) \cup (IF calm THEN {} ELSE {"Other"})

\* r.Get, the lazy initialisation of r.HTTPClient and the branch on what was loaded
Get ==
    /\ pc = "idle"
    /\ cancelledAt = 0
    /\ cleanRun => nPasses < MaxCleanPasses
    /\ calls' = <<>>
    /\ writes' = <<>>
    /\ \E e \in GetErrors :
          /\ getErr' = e
          /\ IF GetReturn(e).returns
             THEN /\ loaded' = NoRecord
                  /\ Return(GetReturn(e).err, 0)
                  /\ Count(0, 0, TRUE, GetReturn(e).err)
                  /\ UNCHANGED HTTPClient
             ELSE /\ loaded' = record
                  /\ HTTPClient' = IF HTTPClient = "nil" THEN "default" ELSE HTTPClient
                  /\ IF AfterGet(record) = "return"
                     THEN /\ Return(FALSE, 0)
                          /\ Count(0, 0, TRUE, FALSE)
                     ELSE /\ pc' = AfterGet(record)
                          /\ dbc' = record
                          /\ stale' = FALSE
                          /\ result' = NoResult
                          /\ Count(0, 0, FALSE, FALSE)
    /\ UNCHANGED <<record, upstream, made, oob, adopted>>
    /\ UNCHANGED <<probe, calm, oobLeft, cancelledAt>>
    /\ UNCHANGED <<boot, mem>>

\* r.Update(ctx, obj): fails on a conflict, a missing record, a rejected or failed
\* request and a cancelled context
StoreUpdate(obj, ok) ==
    /\ ok => (record.present /\ ~stale)
    /\ (calm /\ cancelledAt = 0 /\ record.present /\ ~stale) => ok
    /\ cancelledAt > 0 => ~ok
    /\ writes' = Append(writes, [finalizer |-> obj.finalizer, ok |-> ok])
    /\ record' = IF ok
                 THEN [record EXCEPT !.host = obj.host, !.config = obj.config,
                                     !.finalizer = obj.finalizer]
                 ELSE record

\* deleteDebeziumConnector(host, config["name"]) of the deletion branch
DeleteCall ==
    /\ pc = "delete"
    /\ \E r \in Answered(DeleteReplies(Target(dbc), Connector(Target(dbc)).present)) :
          /\ calls' = Append(calls, Sent(bareRequest("delete", dbc.host, Lookup(dbc.config, "name")),
                                         r.status, EmptyMap))
          /\ upstream' = IF r.effect THEN [upstream EXCEPT ![Target(dbc)] = NoSlot] ELSE upstream
          /\ adopted' = IF r.status \in {StatusOK, StatusNoContent} THEN "cleaned" ELSE adopted
          /\ IF deleteDebeziumConnector(r.status)
             THEN /\ Return(TRUE, 0)
                  /\ Count(0, 0, TRUE, TRUE)
             ELSE /\ pc' = "removeFinalizer"
                  /\ dbc' = [dbc EXCEPT !.finalizer = FALSE]
                  /\ Count(0, 0, FALSE, FALSE)
                  /\ UNCHANGED <<stale, result>>
    /\ UNCHANGED <<record, loaded, writes, made, oob>>
    /\ UNCHANGED <<probe, calm, oobLeft, HTTPClient, cancelledAt, getErr>>
    /\ UNCHANGED <<boot, mem>>

\* RemoveFinalizer was applied to dbc; r.Update persists it
RemoveFinalizerUpdate ==
    /\ pc = "removeFinalizer"
    /\ \E ok \in BOOLEAN :
          /\ StoreUpdate(dbc, ok)
          /\ Return(~ok, 0)
          /\ Count(0, 0, TRUE, ~ok)
    /\ UNCHANGED <<upstream, loaded, calls, made, oob, adopted>>
    /\ UNCHANGED <<probe, calm, oobLeft, HTTPClient, cancelledAt, getErr>>
    /\ UNCHANGED <<boot, mem>>

\* AddFinalizer(dbc) and r.Update
AddFinalizerUpdate ==
    /\ pc = "addFinalizer"
    /\ \E ok \in BOOLEAN :
          /\ StoreUpdate([dbc EXCEPT !.finalizer = TRUE], ok)
          /\ IF ok
             THEN /\ pc' = "exists"
                  /\ dbc' = [dbc EXCEPT !.finalizer = TRUE]
                  /\ Count(0, 0, FALSE, FALSE)
                  /\ UNCHANGED <<stale, result>>
             ELSE /\ Return(TRUE, 0)
                  /\ Count(0, 0, TRUE, TRUE)
    /\ UNCHANGED <<upstream, loaded, calls, made, oob, adopted>>
    /\ UNCHANGED <<probe, calm, oobLeft, HTTPClient, cancelledAt, getErr>>
    /\ UNCHANGED <<boot, mem>>

\* connectorExists(host, config["name"])
ExistsCall ==
    /\ pc = "exists"
    /\ \E r \in Answered(ExistsReplies(Target(dbc), Connector(Target(dbc)).present)) :
          /\ calls' = Append(calls, Sent(bareRequest("exists", dbc.host, Lookup(dbc.config, "name")),
                                         r.status, EmptyMap))
          /\ IF connectorExists(r.status).err
             THEN /\ Return(TRUE, 0)
                  /\ Count(0, 0, TRUE, TRUE)
             ELSE /\ pc' = IF connectorExists(r.status).exists THEN "getConfig" ELSE "create"
                  /\ Count(0, 0, FALSE, FALSE)
                  /\ UNCHANGED <<dbc, stale, result>>
    /\ UNCHANGED <<record, upstream, loaded, writes, made, oob, adopted>>
    /\ UNCHANGED <<probe, calm, oobLeft, HTTPClient, cancelledAt, getErr>>
    /\ UNCHANGED <<boot, mem>>

\* createDebeziumConnector(host, config)
CreateCall ==
    /\ pc = "create"
    /\ LET req == createRequest(dbc.host, dbc.config)
           slot == <<req.host, req.body.name>>
       IN  \E r \in Answered(CreateReplies(slot, Connector(slot).present)) :
              /\ calls' = Append(calls, Sent(req, r.status, EmptyMap))
              /\ upstream' = IF r.effect
                             THEN [upstream EXCEPT ![slot] = [present |-> TRUE, config |-> req.body.config]]
                             ELSE upstream
              /\ made' = IF r.effect THEN made \cup {slot} ELSE made
              /\ adopted' = IF r.status \in {StatusOK, StatusCreated} THEN "yes" ELSE adopted
              /\ IF createDebeziumConnector(r.status)
                 THEN /\ Return(TRUE, 0)
                      /\ Count(1, 0, TRUE, TRUE)
                 ELSE /\ Return(FALSE, RequeueAfter)
                      /\ Count(1, 0, TRUE, FALSE)
    /\ UNCHANGED <<record, loaded, writes, oob>>
    /\ UNCHANGED <<probe, calm, oobLeft, HTTPClient, cancelledAt, getErr>>
    /\ UNCHANGED <<boot, mem>>

\* getDebeziumConnectorConfig(host, config["name"]) and util.ConfigsEqual
GetConfigCall ==
    /\ pc = "getConfig"
    /\ \E r \in Answered(GetConfigReplies(Target(dbc), Connector(Target(dbc)).present)) :
          LET got == getDebeziumConnectorConfig(r.status, Connector(Target(dbc)).config)
          IN  /\ calls' = Append(calls, Sent(bareRequest("getConfig", dbc.host, Lookup(dbc.config, "name")),
                                             r.status, got.config))
              /\ IF got.err
                 THEN /\ Return(TRUE, 0)
                      /\ Count(0, 0, TRUE, TRUE)
                 ELSE IF ~ConfigsEqual(got.config, dbc.config)
                 THEN /\ pc' = "update"
                      /\ Count(0, 0, FALSE, FALSE)
                      /\ UNCHANGED <<dbc, stale, result>>
                 ELSE /\ Return(FALSE, RequeueAfter)
                      /\ Count(0, 0, TRUE, FALSE)
    /\ UNCHANGED <<record, upstream, loaded, writes, made, oob, adopted>>
    /\ UNCHANGED <<probe, calm, oobLeft, HTTPClient, cancelledAt, getErr>>
    /\ UNCHANGED <<boot, mem>>

\* updateDebeziumConnector(host, config)
UpdateCall ==
    /\ pc = "update"
    /\ LET req == updateRequest(dbc.host, dbc.config)
           slot == <<req.host, req.name>>
       IN  \E r \in Answered(PutReplies(slot, Connector(slot).present)) :
              /\ calls' = Append(calls, Sent(req, r.status, EmptyMap))
              /\ upstream' = IF r.effect
                             THEN [upstream EXCEPT ![slot] = [present |-> TRUE, config |-> req.body.config]]
                             ELSE upstream
              /\ made' = IF r.effect THEN made \cup {slot} ELSE made
              /\ adopted' = IF r.status = StatusOK THEN "yes" ELSE adopted
              /\ IF updateDebeziumConnector(r.status)
                 THEN /\ Return(TRUE, 0)
                      /\ Count(0, 1, TRUE, TRUE)
                 ELSE /\ Return(FALSE, RequeueAfter)
                      /\ Count(0, 1, TRUE, FALSE)
    /\ UNCHANGED <<record, loaded, writes, oob>>
    /\ UNCHANGED <<probe, calm, oobLeft, HTTPClient, cancelledAt, getErr>>
    /\ UNCHANGED <<boot, mem>>

----------------------------------------------------------------------------

Next ==
    \/ OwnerCreate
    \/ OwnerEdit
    \/ OwnerDelete
    \/ HostRemove
    \/ OobEdit
    \/ OobDelete
    \/ Get
    \/ DeleteCall
    \/ RemoveFinalizerUpdate
    \/ AddFinalizerUpdate
    \/ ExistsCall
    \/ CreateCall
    \/ GetConfigCall
    \/ UpdateCall

Spec == Init /\ [][Next]_vars

----------------------------------------------------------------------------
(* Certificate bootstrap (internal/util/cert.go).  A secret is             *)
(* [present, data]; the files of certDir are [crt, key], "" for a file     *)
(* that is not there.  fail names the one step whose I/O fails, if any.    *)

\* what GenerateSelfSignedCert leaves in certDir
Generated == [crt |-> "generated.crt", key |-> "generated.key"]

\* a bootstrap that takes a secret without both entries for a missing one
LoadOrGenerateCertRepair(secret, files, getFail, fail) ==
    IF fail = "mkdir" \/ getFail
    THEN [err |-> TRUE, secret |-> secret, files |-> files, generated |-> FALSE, created |-> FALSE]
    ELSE IF secret.present /\ "tls.crt" \in DOMAIN secret.data /\ "tls.key" \in DOMAIN secret.data
    THEN [err |-> fail \in {"writeCrt", "writeKey"}, secret |-> secret,
          files |-> IF fail = "writeCrt" THEN files
                    ELSE IF fail = "writeKey" THEN [files EXCEPT !.crt = secret.data["tls.crt"]]
                    ELSE [crt |-> secret.data["tls.crt"], key |-> secret.data["tls.key"]],
          generated |-> FALSE, created |-> FALSE]
    ELSE IF fail \in {"generate", "writeCrt"}
    THEN [err |-> TRUE, secret |-> secret, files |-> files, generated |-> FALSE, created |-> FALSE]
    ELSE IF fail = "writeKey"
    THEN [err |-> TRUE, secret |-> secret, files |-> [files EXCEPT !.crt = Generated.crt],
          generated |-> TRUE, created |-> FALSE]
    ELSE IF fail \in {"readCrt", "readKey", "create"}
    THEN [err |-> TRUE, secret |-> secret, files |-> Generated, generated |-> TRUE, created |-> FALSE]
    ELSE [err |-> FALSE,
          secret |-> [present |-> TRUE,
                      data |-> [k \in {"tls.crt", "tls.key"} |->
                                   IF k = "tls.crt" THEN Generated.crt ELSE Generated.key]],
          files |-> Generated, generated |-> TRUE, created |-> TRUE]

\* LoadOrGenerateCert: the secret and the files it leaves, whether it returned an
\* error, whether it generated a certificate and whether it wrote the secret.
\* getFail: the lookup of the secret fails for a reason other than not-found.
LoadOrGenerateCert(secret, files, getFail, fail) ==
    IF fail = "mkdir"
    THEN [err |-> TRUE, secret |-> secret, files |-> files, generated |-> FALSE, created |-> FALSE]
    ELSE IF getFail
    THEN [err |-> TRUE, secret |-> secret, files |-> files, generated |-> FALSE, created |-> FALSE]
    ELSE IF secret.present
    THEN IF "tls.crt" \notin DOMAIN secret.data \/ "tls.key" \notin DOMAIN secret.data
         THEN [err |-> TRUE, secret |-> secret, files |-> files,
               generated |-> FALSE, created |-> FALSE]
         ELSE \* writeCertFiles
              IF fail = "writeCrt"
              THEN [err |-> TRUE, secret |-> secret, files |-> files,
                    generated |-> FALSE, created |-> FALSE]
              ELSE IF fail = "writeKey"
              THEN [err |-> TRUE, secret |-> secret,
                    files |-> [files EXCEPT !.crt = secret.data["tls.crt"]],
                    generated |-> FALSE, created |-> FALSE]
              ELSE [err |-> FALSE, secret |-> secret,
                    files |-> [crt |-> secret.data["tls.crt"], key |-> secret.data["tls.key"]],
                    generated |-> FALSE, created |-> FALSE]
    ELSE \* not found: GenerateSelfSignedCert, read the files back, c.Create
         IF fail \in {"generate", "writeCrt"}
         THEN [err |-> TRUE, secret |-> secret, files |-> files,
               generated |-> FALSE, created |-> FALSE]
         ELSE IF fail = "writeKey"
         THEN [err |-> TRUE, secret |-> secret, files |-> [files EXCEPT !.crt = Generated.crt],
               generated |-> TRUE, created |-> FALSE]
         ELSE IF fail \in {"readCrt", "readKey", "create"}
         THEN [err |-> TRUE, secret |-> secret, files |-> Generated,
               generated |-> TRUE, created |-> FALSE]
         ELSE [err |-> FALSE,
               secret |-> [present |-> TRUE,
                           data |-> [k \in {"tls.crt", "tls.key"} |->
                                        IF k = "tls.crt" THEN Generated.crt ELSE Generated.key]],
               files |-> Generated, generated |-> TRUE, created |-> TRUE]

----------------------------------------------------------------------------
(* The trust bundle of the validating webhook.  A webhook configuration is *)
(* [present, webhooks], webhooks a sequence of [name, caBundle].           *)

WebhookName == "vdebeziumconnector.api.debezium.io"
NoVwc == [present |-> FALSE, webhooks |-> <<>>]

\* an update that gives the bundle to every entry
UpdateWebhookCABundleAll(secret, vwc, fail) ==
    IF fail = "getSecret" \/ ~secret.present
       \/ "tls.crt" \notin DOMAIN secret.data \/ Lookup(secret.data, "tls.crt") = ""
       \/ fail = "getVwc" \/ ~vwc.present
       \/ ~(\E i \in 1..Len(vwc.webhooks) : vwc.webhooks[i].name = WebhookName)
       \/ fail = "update"
    THEN [err |-> TRUE, vwc |-> vwc, written |-> FALSE]
    ELSE [err |-> FALSE, written |-> TRUE,
          vwc |-> [present |-> TRUE,
                   webhooks |-> [i \in 1..Len(vwc.webhooks) |->
                                    [name |-> vwc.webhooks[i].name,
                                     caBundle |-> secret.data["tls.crt"]]]]]

\* UpdateWebhookCABundle(webhookName = WebhookName): the stored webhook
\* configuration it leaves, whether it returned an error and whether it wrote.
\* fail names the store request that fails, if any.
UpdateWebhookCABundle(secret, vwc, fail) ==
    IF fail = "getSecret" \/ ~secret.present
    THEN [err |-> TRUE, vwc |-> vwc, written |-> FALSE]
    ELSE IF "tls.crt" \notin DOMAIN secret.data \/ Lookup(secret.data, "tls.crt") = ""
    THEN [err |-> TRUE, vwc |-> vwc, written |-> FALSE]
    ELSE IF fail = "getVwc" \/ ~vwc.present
    THEN [err |-> TRUE, vwc |-> vwc, written |-> FALSE]
    ELSE LET caBundle == secret.data["tls.crt"]
             updated == \E i \in 1..Len(vwc.webhooks) : vwc.webhooks[i].name = WebhookName
             webhooks == [i \in 1..Len(vwc.webhooks) |->
                            IF vwc.webhooks[i].name = WebhookName
                            THEN [vwc.webhooks[i] EXCEPT !.caBundle = caBundle]
                            ELSE vwc.webhooks[i]]
         IN  IF ~updated
             THEN [err |-> TRUE, vwc |-> vwc, written |-> FALSE]
             ELSE IF fail = "update"
             THEN [err |-> TRUE, vwc |-> vwc, written |-> FALSE]
             ELSE [err |-> FALSE, vwc |-> [present |-> TRUE, webhooks |-> webhooks],
                   written |-> TRUE]

----------------------------------------------------------------------------
(* LoadOrGenerateCert step by step, run by several processes at once.  The *)
(* store requests (c.Get, c.Create) are the points where they interleave;  *)
(* the files of certDir belong to one process.                             *)

\* what GenerateSelfSignedCert of process p leaves in its certDir: a fresh key pair
GeneratedBy(p) == [crt |-> "generated.crt." \o p, key |-> "generated.key." \o p]

\* a bootstrap that takes an existing secret for its own
CreateFailedTolerant(createErr) == createErr \notin {"", "AlreadyExists"}

\* LoadOrGenerateCert returns an error whenever c.Create returns one
CreateFailed(createErr) == createErr # ""

\* the process is in state st with the files f
BootStep(p, st, f) ==
    [boot EXCEPT !.proc[p].pc = st, !.proc[p].files = f]

\* os.MkdirAll and c.Get of the secret
BootGet(p) ==
    /\ boot.proc[p].pc = "start"
    /\ \E ok \in BOOLEAN :
          boot' = IF ~ok
                  THEN BootStep(p, "failed", boot.proc[p].files)
                  ELSE [boot EXCEPT !.proc[p].view = boot.secret,
                                    !.proc[p].pc = IF boot.secret.present
                                                   THEN "load" ELSE "generate"]
    /\ UNCHANGED <<record, upstream, passVars, ghostVars, probe, calm, oobLeft,
                   HTTPClient, cancelledAt, getErr, mem>>

\* the secret was found: check its entries and writeCertFiles
BootLoad(p) ==
    /\ boot.proc[p].pc = "load"
    /\ LET me == boot.proc[p]
           data == me.view.data
       IN  IF "tls.crt" \notin DOMAIN data \/ "tls.key" \notin DOMAIN data
           THEN boot' = BootStep(p, "failed", me.files)
           ELSE \E fail \in {"none", "writeCrt", "writeKey"} :
                   boot' = IF fail = "writeCrt" THEN BootStep(p, "failed", me.files)
                           ELSE IF fail = "writeKey"
                           THEN BootStep(p, "failed", [me.files EXCEPT !.crt = data["tls.crt"]])
                           ELSE BootStep(p, "ok", [crt |-> data["tls.crt"], key |-> data["tls.key"]])
    /\ UNCHANGED <<record, upstream, passVars, ghostVars, probe, calm, oobLeft,
                   HTTPClient, cancelledAt, getErr, mem>>

\* the secret was not found: GenerateSelfSignedCert and the read of its files
BootGenerate(p) ==
    /\ boot.proc[p].pc = "generate"
    /\ \E fail \in {"none", "generate", "read"} :
          boot' = IF fail = "generate" THEN BootStep(p, "failed", boot.proc[p].files)
                  ELSE IF fail = "read" THEN BootStep(p, "failed", GeneratedBy(p))
                  ELSE BootStep(p, "create", GeneratedBy(p))
    /\ UNCHANGED <<record, upstream, passVars, ghostVars, probe, calm, oobLeft,
                   HTTPClient, cancelledAt, getErr, mem>>

\* c.Create of the secret with the pair read from certDir; a request that
\* fails for another reason than AlreadyExists may still have been stored
BootCreate(p) ==
    /\ boot.proc[p].pc = "create"
    /\ LET me == boot.proc[p]
           mine == [present |-> TRUE,
                    data |-> [k \in {"tls.crt", "tls.key"} |->
                                 IF k = "tls.crt" THEN me.files.crt ELSE me.files.key]]
       IN  IF boot.secret.present
           THEN \E e \in {"AlreadyExists", "Other"} :
                   boot' = BootStep(p, IF CreateFailed(e) THEN "failed" ELSE "ok", me.files)
           ELSE \E e \in {"", "Other"}, stored \in BOOLEAN :
                   /\ e = "" => stored
                   /\ boot' = [boot EXCEPT
                                 !.secret = IF stored THEN mine ELSE boot.secret,
                                 !.creators = IF stored THEN boot.creators \cup {p}
                                              ELSE boot.creators,
                                 !.proc[p].pc = IF CreateFailed(e) THEN "failed" ELSE "ok"]
    /\ UNCHANGED <<record, upstream, passVars, ghostVars, probe, calm, oobLeft,
                   HTTPClient, cancelledAt, getErr, mem>>

\* main exits on the error and the process is started again over the same certDir
BootRestart(p) ==
    /\ boot.proc[p].pc = "failed"
    /\ boot' = BootStep(p, "start", boot.proc[p].files)
    /\ UNCHANGED <<record, upstream, passVars, ghostVars, probe, calm, oobLeft,
                   HTTPClient, cancelledAt, getErr, mem>>

NextBoot ==
    \E p \in Procs :
        \/ BootGet(p)
        \/ BootLoad(p)
        \/ BootGenerate(p)
        \/ BootCreate(p)
        \/ BootRestart(p)

SpecBoot == Init /\ [][NextBoot]_vars

----------------------------------------------------------------------------
(* DeepCopy of a DebeziumConnector (zz_generated.deepcopy).  An object is  *)
(* [host, config, conds]: config is a reference to a map in the heap (0    *)
(* for a nil map), conds a slice [arr, len] over an array in the heap (0   *)
(* for nil) whose length is the capacity.  The heap is a sequence of       *)
(* cells; a reference is an index into it.                                 *)

\* conditions in a status and changes made to an object after the copy
MaxConditions == 2
MaxMutations == 2

CopyKeys == {"name", "tasks.max"}
CopyValues == {"1", "2"}
ConditionValues == {"True", "False"}

\* what an object holds, read through its references
Contents(obj, heap) ==
    [host |-> obj.host,
     config |-> IF obj.config = 0 THEN EmptyMap ELSE heap[obj.config],
     conds |-> IF obj.conds.arr = 0 THEN <<>>
               ELSE SubSeq(heap[obj.conds.arr], 1, obj.conds.len)]

\* DebeziumConnectorSpec.DeepCopyInto: *out = *in, then a new map with every entry
SpecDeepCopyInto(obj, heap) ==
    IF obj.config # 0
    THEN [obj |-> [obj EXCEPT !.config = Len(heap) + 1],
          heap |-> Append(heap, heap[obj.config])]
    ELSE [obj |-> obj, heap |-> heap]

\* DebeziumConnectorStatus.DeepCopyInto: *out = *in, the slice header is copied
StatusDeepCopyInto(obj, heap) ==
    [obj |-> obj, heap |-> heap]

\* DebeziumConnector.DeepCopyInto: *out = *in, Spec.DeepCopyInto, out.Status = in.Status
DeepCopyInto(obj, heap) ==
    LET spec == SpecDeepCopyInto(obj, heap)
    IN  StatusDeepCopyInto(spec.obj, spec.heap)

\* objects as decoded from the store: cell 1 the config map, cell 2 the conditions
MemInputs ==
    {[phase |-> "live", copied |-> FALSE, nMut |-> 0, touched |-> {},
      heap |-> <<m, a>>,
      orig |-> [host |-> "h1",
                config |-> IF nilConfig THEN 0 ELSE 1,
                conds |-> IF nilConds THEN [arr |-> 0, len |-> 0] ELSE [arr |-> 2, len |-> n]],
      copy |-> [host |-> "", config |-> 0, conds |-> [arr |-> 0, len |-> 0]],
      before |-> [host |-> "", config |-> EmptyMap, conds |-> <<>>]] :
        m \in UNION {[ks -> CopyValues] : ks \in SUBSET CopyKeys},
        a \in UNION {[1..c -> ConditionValues] : c \in 0..MaxConditions},
        n \in 0..MaxConditions,
        nilConfig \in BOOLEAN, nilConds \in BOOLEAN}

InitCopy ==
    /\ Constructed
    /\ probe = NoProbe
    /\ HTTPClient = "manager"
    /\ mem \in {x \in MemInputs :
                  /\ x.orig.conds.arr # 0 => x.orig.conds.len <= Len(x.heap[2])
                  /\ x.orig.config = 0 => x.heap[1] = EmptyMap
                  /\ x.orig.conds.arr = 0 => x.heap[2] = <<>>}

\* copy := orig.DeepCopy()
DeepCopy ==
    /\ mem.phase = "live" /\ ~mem.copied
    /\ LET c == DeepCopyInto(mem.orig, mem.heap)
       IN  mem' = [mem EXCEPT !.copied = TRUE, !.copy = c.obj, !.heap = c.heap,
                              !.before = Contents(mem.orig, mem.heap)]
    /\ UNCHANGED <<record, upstream, passVars, ghostVars, probe, calm, oobLeft,
                   HTTPClient, cancelledAt, getErr, boot>>

Object(who) == IF who = "orig" THEN mem.orig ELSE mem.copy

\* the memory after who's object was replaced by obj over the heap
Mutated(who, obj, heap) ==
    [mem EXCEPT !.heap = heap, !.nMut = mem.nMut + 1, !.touched = mem.touched \cup {who},
                !.orig = IF who = "orig" THEN obj ELSE mem.orig,
                !.copy = IF who = "copy" THEN obj ELSE mem.copy]

\* obj.Spec.Config[k] = v: adds or changes an entry (a nil map cannot be written)
SetConfig(who) ==
    /\ mem.phase = "live" /\ mem.copied /\ mem.nMut < MaxMutations
    /\ Object(who).config # 0
    /\ \E k \in CopyKeys, v \in CopyValues :
          LET r == Object(who).config
              m == mem.heap[r]
          IN  /\ Lookup(m, k) # v
              /\ mem' = Mutated(who, Object(who),
                                [mem.heap EXCEPT ![r] = [x \in DOMAIN m \cup {k} |->
                                                            IF x = k THEN v ELSE m[x]]])
    /\ UNCHANGED <<record, upstream, passVars, ghostVars, probe, calm, oobLeft,
                   HTTPClient, cancelledAt, getErr, boot>>

\* delete(obj.Spec.Config, k)
DeleteConfig(who) ==
    /\ mem.phase = "live" /\ mem.copied /\ mem.nMut < MaxMutations
    /\ Object(who).config # 0
    /\ \E k \in DOMAIN mem.heap[Object(who).config] :
          LET r == Object(who).config
              m == mem.heap[r]
          IN  mem' = Mutated(who, Object(who),
                             [mem.heap EXCEPT ![r] = [x \in DOMAIN m \ {k} |-> m[x]]])
    /\ UNCHANGED <<record, upstream, passVars, ghostVars, probe, calm, oobLeft,
                   HTTPClient, cancelledAt, getErr, boot>>

\* obj.Status.Conditions[i].Status = v
SetCondition(who) ==
    /\ mem.phase = "live" /\ mem.copied /\ mem.nMut < MaxMutations
    /\ \E i \in 1..Object(who).conds.len, v \in ConditionValues :
          LET r == Object(who).conds.arr
          IN  /\ mem.heap[r][i] # v
              /\ mem' = Mutated(who, Object(who), [mem.heap EXCEPT ![r][i] = v])
    /\ UNCHANGED <<record, upstream, passVars, ghostVars, probe, calm, oobLeft,
                   HTTPClient, cancelledAt, getErr, boot>>

\* obj.Status.Conditions = append(obj.Status.Conditions, v): in place while the
\* capacity allows, into a new array otherwise
AppendCondition(who) ==
    /\ mem.phase = "live" /\ mem.copied /\ mem.nMut < MaxMutations
    /\ Object(who).conds.len < MaxConditions
    /\ \E v \in ConditionValues :
          LET sl == Object(who).conds
              room == sl.arr # 0 /\ sl.len < Len(mem.heap[sl.arr])
              old == IF sl.arr = 0 THEN <<>> ELSE SubSeq(mem.heap[sl.arr], 1, sl.len)
          IN  mem' = IF room
                     THEN Mutated(who, [Object(who) EXCEPT !.conds.len = sl.len + 1],
                                  [mem.heap EXCEPT ![sl.arr][sl.len + 1] = v])
                     ELSE Mutated(who, [Object(who) EXCEPT !.conds = [arr |-> Len(mem.heap) + 1,
                                                                     len |-> sl.len + 1]],
                                  Append(mem.heap, Append(old, v)))
    /\ UNCHANGED <<record, upstream, passVars, ghostVars, probe, calm, oobLeft,
                   HTTPClient, cancelledAt, getErr, boot>>

\* obj.Status.Conditions = append(s[:i-1], s[i:]...): the tail moves down in place
RemoveCondition(who) ==
    /\ mem.phase = "live" /\ mem.copied /\ mem.nMut < MaxMutations
    /\ \E i \in 1..Object(who).conds.len :
          LET sl == Object(who).conds
              a == mem.heap[sl.arr]
          IN  mem' = Mutated(who, [Object(who) EXCEPT !.conds.len = sl.len - 1],
                             [mem.heap EXCEPT ![sl.arr] =
                                 [j \in 1..Len(a) |->
                                     IF j >= i /\ j < sl.len THEN a[j + 1] ELSE a[j]]])
    /\ UNCHANGED <<record, upstream, passVars, ghostVars, probe, calm, oobLeft,
                   HTTPClient, cancelledAt, getErr, boot>>

NextCopy ==
    \/ DeepCopy
    \/ \E who \in {"orig", "copy"} :
          \/ SetConfig(who)
          \/ DeleteConfig(who)
          \/ SetCondition(who)
          \/ AppendCondition(who)
          \/ RemoveCondition(who)

SpecCopy == InitCopy /\ [][NextCopy]_vars

----------------------------------------------------------------------------
(* The settled environment and the scheduling of the reconciler *)

\* from here on the owner leaves the record alone, the store and the upstream
\* answer every request, and at most MaxCalmOob out-of-band changes follow
Calm ==
    /\ ~calm
    /\ calm' = TRUE
    /\ UNCHANGED <<record, upstream, passVars, ghostVars, probe, oobLeft, HTTPClient, cancelledAt, getErr>>
    /\ UNCHANGED <<boot, mem>>

\* a reconcile request is queued: the last pass returned an error or a
\* RequeueAfter, or the record has changed since it was last loaded
Triggered ==
    \/ result.done /\ (result.err \/ result.requeueAfter > 0)
    \/ record # loaded

NextLive ==
    \/ Next
    \/ Calm

\* a queued request is eventually served and a started pass runs to its return
SpecLive ==
    /\ Init /\ [][NextLive]_vars
    /\ WF_vars(Triggered /\ Get)
    /\ WF_vars(DeleteCall) /\ WF_vars(RemoveFinalizerUpdate)
    /\ WF_vars(AddFinalizerUpdate) /\ WF_vars(ExistsCall)
    /\ WF_vars(CreateCall) /\ WF_vars(GetConfigCall) /\ WF_vars(UpdateCall)

----------------------------------------------------------------------------
(* The reconciler built without an HTTP client, a stalled upstream and the *)
(* shutdown of the host                                                    *)

SpecAnyClient == InitAnyClient /\ [][Next]_vars

\* the client of the pass carries a Timeout: the one Reconcile sets up itself
Bounded == HTTPClient = "default"

\* no call is sure to be answered: it ends for certain only by the timeout of
\* the client; a store write always ends
SpecStall ==
    /\ InitAnyClient /\ [][Next]_vars
    /\ WF_vars(AddFinalizerUpdate) /\ WF_vars(RemoveFinalizerUpdate)
    /\ WF_vars(Bounded /\ DeleteCall) /\ WF_vars(Bounded /\ ExistsCall)
    /\ WF_vars(Bounded /\ CreateCall) /\ WF_vars(Bounded /\ GetConfigCall)
    /\ WF_vars(Bounded /\ UpdateCall)

\* the context of the running pass is cancelled while an external call is in flight
Cancel ==
    /\ pc \in {"delete", "exists", "create", "getConfig", "update"}
    /\ cancelledAt = 0
    /\ cancelledAt' = Len(calls) + 1
    /\ UNCHANGED <<record, upstream, passVars, ghostVars, probe, calm, oobLeft, HTTPClient, getErr>>
    /\ UNCHANGED <<boot, mem>>

NextShutdown ==
    \/ Next
    \/ Cancel

SpecShutdown == Init /\ [][NextShutdown]_vars

----------------------------------------------------------------------------
(* The helpers applied to one input each: the status checks of the HTTP    *)
(* helpers, util.ConfigsEqual and the validation webhook.                  *)

ProbeOps == {"exists", "getConfig", "create", "update", "delete"}
ProbeStatuses == {TransportFailure, 200, 201, 202, 204, 301, 400, 404, 409, 500, 503}

ProbeKeys == {"name", "connector.class", "tasks.max"}
ProbeValues == {"1", "2"}
ProbeMaps == UNION {[ks -> ProbeValues] : ks \in SUBSET ProbeKeys}

ProbeHosts == OwnerHosts
ProbeConfigs == OwnerConfigs \cup {EmptyMap}
ProbeValidateStatuses == ValidateStatuses \cup {StatusCreated, StatusNotFound}
ProbeErrors == SUBSET {"name", "tasks.max"}
ProbeOld == {[host |-> h, config |-> c] : h \in {"h1", "h2"}, c \in {CfgA, CfgC}}

CertSecrets ==
    {NoSecret} \cup
    {[present |-> TRUE, data |-> d] :
        d \in UNION {[ks -> {"", "stored"}] : ks \in SUBSET {"tls.crt", "tls.key"}}}
CertFiles == {NoFiles, [crt |-> "old.crt", key |-> "old.key"]}
CertFailures == {"none", "mkdir", "generate", "writeCrt", "writeKey", "readCrt", "readKey", "create"}

\* entries of a webhook configuration
MaxWebhooks == 2
WebhookEntries == {[name |-> n, caBundle |-> b] :
                      n \in {WebhookName, "other.api.debezium.io"}, b \in {"", "old.ca"}}
Vwcs ==
    {NoVwc} \cup
    {[present |-> TRUE, webhooks |-> w] :
        w \in UNION {[1..n -> WebhookEntries] : n \in 0..MaxWebhooks}}
CaFailures == {"none", "getSecret", "getVwc", "update"}

ProbeInputs ==
    {[kind |-> "caBundle", done |-> FALSE, secret |-> sc, vwc |-> v, fail |-> x] :
        sc \in CertSecrets, v \in Vwcs, x \in CaFailures}
    \cup
    {[kind |-> "cert", done |-> FALSE, secret |-> sc, files |-> f, getFail |-> g, fail |-> x] :
        sc \in CertSecrets, f \in CertFiles, g \in BOOLEAN, x \in CertFailures}
    \cup
    {[kind |-> "code", done |-> FALSE, op |-> o, status |-> st] :
        o \in ProbeOps, st \in ProbeStatuses}
    \cup
    {[kind |-> "equal", done |-> FALSE, a |-> x, b |-> y] :
        x \in ProbeMaps, y \in ProbeMaps}
    \cup
    {[kind |-> "validate", done |-> FALSE, op |-> o, old |-> od, host |-> h,
      config |-> c, vstatus |-> vs, verrors |-> ve] :
        o \in {"create", "update"}, od \in ProbeOld, h \in ProbeHosts,
        c \in ProbeConfigs, vs \in ProbeValidateStatuses, ve \in ProbeErrors}

InitPure ==
    /\ Constructed
    /\ probe \in ProbeInputs
    /\ HTTPClient = "manager"
    /\ mem = NoMem

\* the status check of one HTTP helper
ProbeCode ==
    /\ probe.kind = "code" /\ ~probe.done
    /\ probe' = [kind |-> "code", done |-> TRUE, op |-> probe.op, status |-> probe.status,
                 err |-> CASE probe.op = "exists" -> connectorExists(probe.status).err
                           [] probe.op = "getConfig" ->
                                getDebeziumConnectorConfig(probe.status, CfgA).err
                           [] probe.op = "create" -> createDebeziumConnector(probe.status)
                           [] probe.op = "update" -> updateDebeziumConnector(probe.status)
                           [] probe.op = "delete" -> deleteDebeziumConnector(probe.status)]
    /\ UNCHANGED <<record, upstream, passVars, ghostVars, calm, oobLeft, HTTPClient, cancelledAt, getErr>>
    /\ UNCHANGED <<boot, mem>>

\* util.ConfigsEqual(a, b)
ProbeEqual ==
    /\ probe.kind = "equal" /\ ~probe.done
    /\ probe' = [kind |-> "equal", done |-> TRUE, a |-> probe.a, b |-> probe.b,
                 out |-> ConfigsEqual(probe.a, probe.b),
                 swapped |-> ConfigsEqual(probe.b, probe.a)]
    /\ UNCHANGED <<record, upstream, passVars, ghostVars, calm, oobLeft, HTTPClient, cancelledAt, getErr>>
    /\ UNCHANGED <<boot, mem>>

\* ValidateCreate / ValidateUpdate of a candidate record
ProbeValidate ==
    /\ probe.kind = "validate" /\ ~probe.done
    /\ probe' = [kind |-> "validate", done |-> TRUE, op |-> probe.op, old |-> probe.old,
                 host |-> probe.host, config |-> probe.config,
                 vstatus |-> probe.vstatus, verrors |-> probe.verrors,
                 out |-> IF probe.op = "create"
                         THEN ValidateCreate(probe.host, probe.config, probe.vstatus, probe.verrors)
                         ELSE ValidateUpdate(probe.old, probe.host, probe.config,
                                             probe.vstatus, probe.verrors),
                 twin |-> IF probe.op = "create"
                          THEN ValidateUpdate(probe.old, probe.host, probe.config,
                                              probe.vstatus, probe.verrors)
                          ELSE ValidateCreate(probe.host, probe.config, probe.vstatus, probe.verrors)]
    /\ UNCHANGED <<record, upstream, passVars, ghostVars, calm, oobLeft, HTTPClient, cancelledAt, getErr>>
    /\ UNCHANGED <<boot, mem>>

\* LoadOrGenerateCert at start-up
ProbeCert ==
    /\ probe.kind = "cert" /\ ~probe.done
    /\ probe' = [kind |-> "cert", done |-> TRUE, secret |-> probe.secret, files |-> probe.files,
                 getFail |-> probe.getFail, fail |-> probe.fail,
                 out |-> LoadOrGenerateCert(probe.secret, probe.files, probe.getFail, probe.fail)]
    /\ UNCHANGED <<record, upstream, passVars, ghostVars, calm, oobLeft, HTTPClient, cancelledAt, getErr>>
    /\ UNCHANGED <<boot, mem>>

\* UpdateWebhookCABundle at start-up
ProbeCaBundle ==
    /\ probe.kind = "caBundle" /\ ~probe.done
    /\ probe' = [kind |-> "caBundle", done |-> TRUE, secret |-> probe.secret, vwc |-> probe.vwc,
                 fail |-> probe.fail,
                 out |-> UpdateWebhookCABundle(probe.secret, probe.vwc, probe.fail)]
    /\ UNCHANGED <<record, upstream, passVars, ghostVars, calm, oobLeft, HTTPClient, cancelledAt, getErr>>
    /\ UNCHANGED <<boot, mem>>

NextPure ==
    \/ ProbeCert
    \/ ProbeCaBundle
    \/ ProbeCode
    \/ ProbeEqual
    \/ ProbeValidate

SpecPure == InitPure /\ [][NextPure]_vars

----------------------------------------------------------------------------
(* Properties *)

\* a pass has returned and no other has started
PassDone == pc = "idle" /\ result.done

\* a pass that loaded a record is running or has returned
InPass == loaded.present /\ (pc # "idle" \/ result.done)

Ops == {calls[i].op : i \in 1..Len(calls)}

\* C1: in a pass on a record that is not marked for deletion and has no
\* finalizer, the finalizer is written to the store before any external call;
\* if that write fails the pass issues no external call, and if the create
\* call fails the stored finalizer is still set when the pass ends.
C1_FinalizerBeforeCreate ==
    (InPass /\ ~loaded.deleting /\ ~loaded.finalizer) =>
        /\ calls # <<>> => (Len(writes) = 1 /\ writes[1].ok /\ writes[1].finalizer)
        /\ (writes # <<>> /\ ~writes[1].ok) => (calls = <<>> /\ PassDone /\ result.err)
        /\ (PassDone /\ Len(calls) = 2 /\ calls[2].op = "create"
                /\ calls[2].status \notin {200, 201})
              => (result.err /\ record.present /\ record.finalizer)

C1_Witness ==
    /\ PassDone /\ loaded.present /\ ~loaded.deleting /\ ~loaded.finalizer
    /\ Len(calls) = 2 /\ calls[2].op = "create" /\ calls[2].status = 500
    /\ result.err /\ record.present /\ record.finalizer

\* the last pass loaded a deleting record with the finalizer and its delete call failed
DeleteFailed ==
    /\ PassDone /\ loaded.present /\ loaded.deleting /\ loaded.finalizer
    /\ Len(calls) = 1 /\ calls[1].op = "delete"
    /\ calls[1].status \notin {200, 204}

\* C2: when the delete call of a pass on a deleting record with the finalizer
\* fails (transport failure or a status other than 200/204), the pass returns
\* an error, the stored record still carries the finalizer, and the next pass
\* that loads the record goes to the delete call again.
C2_NoReleaseWithoutConfirmation ==
    /\ [](DeleteFailed =>
            /\ result.err
            /\ writes = <<>>
            /\ record.present /\ record.deleting /\ record.finalizer)
    /\ [][(DeleteFailed /\ loaded'.present /\ (pc' # pc \/ result' # result \/ calls' # calls))
            => (pc' = "delete" /\ calls' = <<>>)]_vars
    /\ [][(pc = "delete" /\ pc' # "delete")
            => (Len(calls') = 1 /\ calls'[1].op = "delete"
                /\ calls'[1].name = Lookup(loaded.config, "name"))]_vars

C2_Witness ==
    DeleteFailed /\ calls[1].status = TransportFailure /\ record.finalizer

\* C3: a pass on a deleting record with the finalizer whose delete call is
\* answered "not found" (the connector is already absent) returns no error
\* and releases the finalizer.
C3_DeleteOfAbsentSucceeds ==
    (PassDone /\ loaded.present /\ loaded.deleting /\ loaded.finalizer
        /\ Len(calls) = 1 /\ calls[1].op = "delete" /\ calls[1].status = 404)
    => (~result.err /\ (~record.present \/ ~record.finalizer))

\* C4: with no out-of-band upstream change, once the record has been removed
\* from the store no connector that a pass created or updated for it exists.
C4_NoOrphan ==
    (~record.present /\ ~oob) => \A s \in made : ~upstream[s].present

\* the pass read a config from the upstream that differs from the desired one
DriftSeen ==
    /\ InPass /\ Len(calls) >= 2
    /\ calls[2].op = "getConfig" /\ calls[2].status = 200
    /\ ~ConfigsEqual(calls[2].reply, loaded.config)

\* C5: a pass that finds the connector present with a config different from
\* the desired one issues exactly one update, addressed to the desired name
\* and carrying the desired map, and no create or delete.
C5_DriftCorrection ==
    (DriftSeen /\ PassDone) =>
        /\ Len(calls) = 3
        /\ calls[3].op = "update"
        /\ calls[3].host = loaded.host
        /\ calls[3].name = Lookup(loaded.config, "name")
        /\ calls[3].body.config = loaded.config
        /\ calls[1].op = "exists"

C5_Witness ==
    /\ DriftSeen /\ PassDone /\ Len(calls) = 3 /\ calls[3].status = 200
    /\ calls[2].reply = CfgB /\ loaded.config = CfgA

\* C6: a pass that finds the connector present with the desired config issues
\* no create, update or delete; an update is only ever issued after a
\* getConfig of the same pass returned a different config.
C6_NoActionInSync ==
    /\ (InPass /\ Len(calls) >= 2 /\ calls[2].op = "getConfig"
            /\ calls[2].status = 200 /\ calls[2].reply = loaded.config)
          => (Len(calls) = 2 /\ PassDone /\ ~result.err
              /\ Ops = {"exists", "getConfig"})
    /\ \A i \in 1..Len(calls) :
          calls[i].op = "update" =>
              (i = 3 /\ calls[2].op = "getConfig" /\ calls[2].status = 200
                     /\ calls[2].reply # loaded.config)

C6_Witness ==
    /\ PassDone /\ loaded.present /\ ~loaded.deleting /\ Len(calls) = 2
    /\ calls[2].op = "getConfig" /\ calls[2].status = 200
    /\ calls[2].reply = loaded.config /\ ~result.err

\* C7: from a new record and an absent connector, any number of successful
\* passes with no owner edit and no out-of-band change issue exactly one
\* create call and no update call in total.
C7_IdempotentCreate ==
    (cleanRun /\ pc = "idle" /\ nPasses >= 1) => (nCreate = 1 /\ nUpdate = 0)

C7_Witness ==
    cleanRun /\ pc = "idle" /\ nPasses >= 3 /\ nCreate = 1 /\ nUpdate = 0

\* C8: a pass on a non-deleting record whose exists check reports the
\* connector absent issues exactly one create call with name = config["name"]
\* and config = the desired map, and no getConfig, update or delete.
C8_CreateWhenAbsent ==
    (PassDone /\ loaded.present /\ ~loaded.deleting
        /\ Len(calls) >= 1 /\ calls[1].op = "exists" /\ calls[1].status = 404)
    => /\ Len(calls) = 2
       /\ calls[2].op = "create"
       /\ calls[2].host = loaded.host
       /\ calls[2].body = [name |-> Lookup(loaded.config, "name"), config |-> loaded.config]

C8_Witness ==
    /\ PassDone /\ loaded.present /\ ~loaded.deleting /\ Len(calls) = 2
    /\ calls[1].status = 404 /\ calls[2].op = "create" /\ calls[2].status = 201
    /\ calls[2].body.name = "c2"

\* C9: a pass on a record not marked for deletion that completes without
\* error asks to be re-invoked after 60; a pass that fails returns an error
\* and no such interval.
C9_PeriodicRequeue ==
    (PassDone /\ loaded.present /\ ~loaded.deleting) =>
        /\ ~result.err => result.requeueAfter = 60
        /\ result.err => result.requeueAfter = 0
        /\ ~result.err <=>
              \/ (Len(calls) = 2 /\ calls[2].op = "create" /\ calls[2].status \in {200, 201})
              \/ (Len(calls) = 2 /\ calls[2].op = "getConfig" /\ calls[2].status = 200)
              \/ (Len(calls) = 3 /\ calls[3].op = "update" /\ calls[3].status = 200)

C9_Witness ==
    /\ PassDone /\ loaded.present /\ ~loaded.deleting /\ ~result.err
    /\ Len(calls) = 3 /\ calls[3].op = "update" /\ result.requeueAfter = 60

\* C10: a pass on a record marked for deletion that has no finalizer issues no
\* external call, writes nothing to the store, returns success and asks for
\* no re-invocation.
C10_DeleteWithoutFinalizer ==
    (InPass /\ loaded.deleting /\ ~loaded.finalizer) =>
        /\ PassDone
        /\ calls = <<>>
        /\ writes = <<>>
        /\ ~result.err
        /\ result.requeueAfter = 0

C10_Witness ==
    PassDone /\ loaded.present /\ loaded.deleting /\ ~loaded.finalizer /\ record.present

\* C11: a stored record for which a pass completed a successful create or
\* update call carries the finalizer unless a delete call has since been
\* confirmed; the engine clears the finalizer only in a pass whose delete
\* call was answered 200 or 204.
C11_FinalizerInvariant ==
    /\ []((record.present /\ adopted = "yes") => record.finalizer)
    /\ [][(record.finalizer /\ ~record'.finalizer)
            => (/\ pc = "removeFinalizer"
                /\ record'.present
                /\ Len(calls) = 1 /\ calls[1].op = "delete"
                /\ calls[1].status \in {200, 204})]_vars

C11_Witness ==
    /\ record.present /\ adopted = "yes" /\ record.finalizer /\ record.deleting
    /\ PassDone /\ result.err

C11_ReleasedWitness ==
    record.present /\ adopted = "cleaned" /\ ~record.finalizer /\ PassDone /\ ~result.err

\* the call did not succeed: a transport failure or a status outside the
\* success codes of its operation
CallFailed(c) ==
    CASE c.op = "exists" -> c.status \notin {200, 404}
      [] c.op = "getConfig" -> c.status # 200
      [] c.op = "create" -> c.status \notin {200, 201}
      [] c.op = "update" -> c.status # 200
      [] c.op = "delete" -> c.status \notin {200, 204}

\* C12: when an external call of a pass fails, the pass returns an error at
\* once: the failed call is the last call of the pass, no call is repeated
\* within a pass, and the stored status is the one the pass loaded.
C12_FailuresSurfaced ==
    /\ \A i \in 1..Len(calls) :
          CallFailed(calls[i]) =>
              (i = Len(calls) /\ PassDone /\ result.err /\ result.requeueAfter = 0)
    /\ \A i, j \in 1..Len(calls) : i # j => calls[i].op # calls[j].op
    /\ (InPass /\ record.present) => record.phase = loaded.phase

C12_Witness ==
    /\ PassDone /\ result.err /\ Len(calls) = 3
    /\ calls[3].op = "update" /\ calls[3].status = 201

\* C13: the existence check reports "present" on 200 only and "absent" on
\* 404 only; on a transport failure or any other status the pass ends with
\* an error and issues neither create nor update.
C13_ExistsClassification ==
    (InPass /\ Len(calls) >= 1 /\ calls[1].op = "exists") =>
        /\ calls[1].status = 200 =>
              /\ Len(calls) = 1 => pc = "getConfig"
              /\ Len(calls) >= 2 => calls[2].op = "getConfig"
        /\ calls[1].status = 404 =>
              /\ Len(calls) = 1 => pc = "create"
              /\ Len(calls) >= 2 => calls[2].op = "create"
        /\ calls[1].status \notin {200, 404} =>
              (Len(calls) = 1 /\ PassDone /\ result.err)

C13_Witness ==
    /\ PassDone /\ result.err /\ Len(calls) = 1
    /\ calls[1].op = "exists" /\ calls[1].status = 500

----------------------------------------------------------------------------
\* C14: create succeeds exactly on 200 or 201, update exactly on 200, delete
\* exactly on 200 or 204 and getConfig exactly on 200; every other status and
\* every transport failure is returned as an error.
C14_SuccessCodes ==
    (probe.kind = "code" /\ probe.done) =>
        /\ probe.op = "create" => (probe.err <=> probe.status \notin {200, 201})
        /\ probe.op = "update" => (probe.err <=> probe.status # 200)
        /\ probe.op = "delete" => (probe.err <=> probe.status \notin {200, 204})
        /\ probe.op = "getConfig" => (probe.err <=> probe.status # 200)
        /\ probe.status = TransportFailure => probe.err

C14_Witness ==
    /\ probe.kind = "code" /\ probe.done
    /\ probe.op = "create" /\ probe.status = 200 /\ ~probe.err

\* the configurations are equal as maps: same key set, same value under every key
SameMap(a, b) ==
    /\ DOMAIN a = DOMAIN b
    /\ \A k \in DOMAIN a : a[k] = b[k]

\* C15: ConfigsEqual(a, b) is true iff a and b have the same key set and every
\* key maps to the same string in both, for all maps (empty ones and strict
\* subsets included), and the result is the same with the arguments swapped.
C15_ConfigsEqualIsMapEquality ==
    (probe.kind = "equal" /\ probe.done) =>
        /\ probe.out <=> SameMap(probe.a, probe.b)
        /\ probe.out <=> probe.swapped

\* a is a strict subset of b: the range over a finds every key equal in b
C15_Witness ==
    /\ probe.kind = "equal" /\ probe.done
    /\ probe.a = [k \in {"name"} |-> "1"]
    /\ probe.b = [k \in {"name", "tasks.max"} |-> "1"]
    /\ ~probe.out

----------------------------------------------------------------------------
Phases == {"RUNNING", "PAUSED", "TASK_FAILED", "UNKNOWN"}

\* C16: after every pass on a non-deleting record that completes without
\* error, the stored status of the record holds one of the phases RUNNING,
\* PAUSED, TASK_FAILED, UNKNOWN.
C16_StatusReported ==
    (/\ PassDone /\ ~result.err
     /\ loaded.present /\ ~loaded.deleting
     /\ record.present)
        => record.phase \in Phases

----------------------------------------------------------------------------
LocalFailures(host, config) ==
    (IF host = "" THEN {"debeziumHost"} ELSE {}) \cup
    (IF "connector.class" \notin DOMAIN config THEN {"connector.class"} ELSE {})

\* C17: on create and on update, a record with an empty host or a config
\* without "connector.class" is rejected with one field error per failed
\* check, and no request is sent to the external platform.
C17_LocalChecks ==
    (/\ probe.kind = "validate" /\ probe.done
     /\ LocalFailures(probe.host, probe.config) # {})
        => /\ ~probe.out.admitted
           /\ probe.out.fields = LocalFailures(probe.host, probe.config)
           /\ ~probe.out.called

C17_Witness ==
    /\ probe.kind = "validate" /\ probe.done /\ probe.op = "update"
    /\ probe.host = "" /\ probe.config = CfgNoClass
    /\ probe.vstatus = StatusOK /\ probe.verrors = {}
    /\ probe.out.fields = {"debeziumHost", "connector.class"}

----------------------------------------------------------------------------
\* C18: every admitted record has a config with the key "name", so no pass
\* issues an external call with a missing or empty connector name.
C18_NameAtAdmission ==
    /\ record.present => "name" \in DOMAIN record.config
    /\ \A i \in 1..Len(calls) : calls[i].name # ""

----------------------------------------------------------------------------
----------------------------------------------------------------------------
\* a settled record that is not marked for deletion and names its connector
CalmRecord ==
    /\ calm
    /\ record.present /\ ~record.deleting
    /\ Lookup(record.config, "name") # ""

\* the connector of the record exists with the desired configuration
Converged ==
    /\ Connector(Target(record)).present
    /\ Connector(Target(record)).config = record.config

\* C20: for a record not marked for deletion whose spec has stopped changing,
\* with requests answered and queued reconciles served, the connector
\* eventually exists with the desired configuration, again after every later
\* out-of-band change, and stays so once those changes have ended.
C20_Convergence ==
    /\ CalmRecord ~> Converged
    /\ (CalmRecord /\ oobLeft = 0) ~> [](CalmRecord => Converged)

\* an out-of-band change made after the record settled has been put back
C20_Witness ==
    /\ CalmRecord /\ oobLeft < MaxCalmOob
    /\ Converged
    /\ PassDone /\ ~result.err
    /\ Len(calls) = 3 /\ calls[3].op = "update" /\ calls[3].status = 200

----------------------------------------------------------------------------
----------------------------------------------------------------------------
\* C22: every pass terminates even when the upstream never answers, whichever
\* HTTP client the reconciler was built with.
C22_PassTerminates == (pc # "idle") ~> (pc = "idle")

\* a pass whose client carries the timeout does terminate
C22_BoundedPassTerminates == (pc # "idle" /\ Bounded) ~> (pc = "idle")

----------------------------------------------------------------------------
\* the finalizer is not released in a pass whose context was cancelled
C23_NoReleaseAfterCancel ==
    [][cancelledAt > 0 => record'.finalizer = record.finalizer]_vars

\* C23: when the context of a pass is cancelled while an external call is in
\* flight, that call is aborted and the pass issues no further external call,
\* and the finalizer is not released in a pass whose delete call was cancelled.
C23_Cancellation ==
    /\ []((cancelledAt > 0 /\ Len(calls) >= cancelledAt)
            => /\ calls[cancelledAt].status = TransportFailure
               /\ Len(calls) = cancelledAt)
    /\ C23_NoReleaseAfterCancel

----------------------------------------------------------------------------
HasBoth(secret) ==
    secret.present /\ "tls.crt" \in DOMAIN secret.data /\ "tls.key" \in DOMAIN secret.data

\* C24: after LoadOrGenerateCert succeeds the secret exists and the files of
\* certDir are exactly its tls.crt and tls.key; a secret that has both entries
\* is neither regenerated nor written; a secret that lacks an entry, or a
\* lookup failing for another reason than not-found, gives an error and
\* nothing is generated.
C24_CertBootstrap ==
    (probe.kind = "cert" /\ probe.done) =>
        /\ ~probe.out.err =>
              /\ HasBoth(probe.out.secret)
              /\ probe.out.files = [crt |-> probe.out.secret.data["tls.crt"],
                                    key |-> probe.out.secret.data["tls.key"]]
        /\ (HasBoth(probe.secret) /\ ~probe.getFail) =>
              /\ ~probe.out.generated /\ ~probe.out.created
              /\ probe.out.secret = probe.secret
        /\ ((probe.secret.present /\ ~HasBoth(probe.secret)) \/ probe.getFail) =>
              /\ probe.out.err
              /\ ~probe.out.generated /\ ~probe.out.created
              /\ probe.out.secret = probe.secret
              /\ probe.out.files = probe.files

\* a secret with the certificate and without the key: an error, old files kept
C24_Witness ==
    /\ probe.kind = "cert" /\ probe.done
    /\ probe.secret.present /\ DOMAIN probe.secret.data = {"tls.crt"}
    /\ probe.fail = "none" /\ ~probe.getFail
    /\ probe.files.crt = "old.crt"
    /\ probe.out.err /\ probe.out.files = probe.files

\* no secret: a certificate is generated and stored
C24_GeneratedWitness ==
    /\ probe.kind = "cert" /\ probe.done
    /\ ~probe.secret.present /\ probe.fail = "none" /\ ~probe.getFail
    /\ ~probe.out.err /\ probe.out.created
    /\ probe.out.files = Generated

----------------------------------------------------------------------------
Named(vwc) == {i \in 1..Len(vwc.webhooks) : vwc.webhooks[i].name = WebhookName}

\* C30: UpdateWebhookCABundle sets the CA bundle of every webhook entry named
\* webhookName to the secret's tls.crt and leaves every other entry as it
\* was; with the secret missing, tls.crt absent or empty, the webhook
\* configuration missing or no entry of that name it returns an error and
\* does not write the stored webhook configuration.
C30_TrustBundleUpdate ==
    (probe.kind = "caBundle" /\ probe.done) =>
        /\ ~probe.out.err =>
              /\ probe.out.vwc.present
              /\ Len(probe.out.vwc.webhooks) = Len(probe.vwc.webhooks)
              /\ \A i \in 1..Len(probe.vwc.webhooks) :
                    probe.out.vwc.webhooks[i] =
                        IF i \in Named(probe.vwc)
                        THEN [name |-> WebhookName, caBundle |-> probe.secret.data["tls.crt"]]
                        ELSE probe.vwc.webhooks[i]
        /\ (\/ ~probe.secret.present
            \/ Lookup(probe.secret.data, "tls.crt") = ""
            \/ ~probe.vwc.present
            \/ Named(probe.vwc) = {})
              => /\ probe.out.err
                 /\ ~probe.out.written
                 /\ probe.out.vwc = probe.vwc
        /\ probe.out.err => probe.out.vwc = probe.vwc

\* two entries, one of them named: only that one receives the bundle
C30_Witness ==
    /\ probe.kind = "caBundle" /\ probe.done /\ ~probe.out.err
    /\ Len(probe.vwc.webhooks) = 2
    /\ probe.vwc.webhooks[1] = [name |-> "other.api.debezium.io", caBundle |-> "old.ca"]
    /\ probe.vwc.webhooks[2] = [name |-> WebhookName, caBundle |-> "old.ca"]
    /\ probe.out.vwc.webhooks[1].caBundle = "old.ca"
    /\ probe.out.vwc.webhooks[2].caBundle = "stored"

----------------------------------------------------------------------------
\* C25: once a record carrying the finalizer is marked for deletion, with
\* queued reconciles served and every request answered, the finalizer is
\* eventually released, also when an earlier delete succeeded upstream and
\* the write removing the finalizer failed.
C25_DeletionCompletes ==
    (calm /\ record.present /\ record.deleting /\ record.finalizer)
        ~> ~(record.present /\ record.finalizer)

----------------------------------------------------------------------------
\* C26: a pass that loads a record marked for deletion never issues an
\* exists, getConfig, create or update call and never adds the finalizer; its
\* only external call is a single delete, and only with the finalizer present.
C26_NoResurrection ==
    (InPass /\ loaded.deleting) =>
        /\ Ops \subseteq {"delete"}
        /\ Len(calls) <= 1
        /\ Len(calls) = 1 => loaded.finalizer
        /\ \A i \in 1..Len(writes) : ~writes[i].finalizer
        /\ pc \in {"idle", "delete", "removeFinalizer"}

C26_Witness ==
    /\ PassDone /\ loaded.present /\ loaded.deleting /\ loaded.finalizer
    /\ Len(calls) = 1 /\ calls[1].op = "delete" /\ calls[1].status = StatusNoContent
    /\ Len(writes) = 1 /\ writes[1].ok /\ ~result.err

----------------------------------------------------------------------------
\* a store write of the engine: the pass logs every r.Update it makes
EngineWrite == Len(writes') = Len(writes) + 1

\* C27: no pass changes the stored host, config or deletion flag of the
\* record, also when the owner edits the record between the load and the
\* write of the pass: the write never puts the stale spec back.
C27_EngineFrame ==
    [][EngineWrite =>
         /\ record'.present = record.present
         /\ record'.host = record.host
         /\ record'.config = record.config
         /\ record'.deleting = record.deleting]_vars

\* the owner changed the config after the load and the write of the pass failed
C27_Witness ==
    /\ PassDone /\ loaded.present /\ record.present
    /\ record.config # loaded.config
    /\ Len(writes) = 1 /\ ~writes[1].ok /\ writes[1].finalizer
    /\ result.err

----------------------------------------------------------------------------
\* C28: a pass for a key whose record is no longer in the store returns
\* success with no external call, no store write and no re-invocation
\* request; any other load failure returns an error, also without a call.
C28_RecordNotFound ==
    /\ getErr # "" => (PassDone /\ calls = <<>> /\ writes = <<>> /\ ~loaded.present)
    /\ getErr = "NotFound" => (~result.err /\ result.requeueAfter = 0)
    /\ getErr = "Other" => result.err

\* the record was cleaned up and removed, and a later pass finds nothing
C28_Witness ==
    /\ getErr = "NotFound" /\ ~record.present /\ adopted = "cleaned"
    /\ PassDone /\ ~result.err

C28_FailureWitness ==
    /\ getErr = "Other" /\ record.present /\ PassDone /\ result.err

----------------------------------------------------------------------------
\* C29: for the same candidate record and the same answer of the upstream
\* validate endpoint ValidateUpdate gives the verdict of ValidateCreate
\* whatever the old record was; an update that changes config["name"] or the
\* host is admitted whenever the new record alone would be.
C29_VerdictIgnoresOld ==
    (probe.kind = "validate" /\ probe.done) =>
        /\ probe.out = probe.twin
        /\ \A od \in ProbeOld :
              ValidateUpdate(od, probe.host, probe.config, probe.vstatus, probe.verrors).admitted
                  = probe.out.admitted

\* a rename from c2 to c1 together with a move from h2 to h1 is admitted
C29_Witness ==
    /\ probe.kind = "validate" /\ probe.done /\ probe.op = "update"
    /\ probe.old = [host |-> "h2", config |-> CfgC]
    /\ probe.host = "h1" /\ probe.config = CfgA
    /\ probe.vstatus = StatusOK /\ probe.verrors = {}
    /\ probe.out.admitted /\ probe.twin.admitted

----------------------------------------------------------------------------
\* C31: when processes run LoadOrGenerateCert at the same time against a
\* store without the secret, at most one of them creates the secret, and
\* every process that returns success has certDir files equal to the stored
\* secret's tls.crt and tls.key.
C31_ConcurrentBootstrap ==
    /\ Cardinality(boot.creators) <= 1
    /\ \A p \in Procs :
          boot.proc[p].pc = "ok" =>
              /\ HasBoth(boot.secret)
              /\ boot.proc[p].files = [crt |-> boot.secret.data["tls.crt"],
                                       key |-> boot.secret.data["tls.key"]]

\* both generated a pair; p1 stored its own, p2 lost the race and returned an error
C31_Witness ==
    /\ boot.creators = {"p1"}
    /\ boot.proc["p1"].pc = "ok" /\ boot.proc["p1"].files = GeneratedBy("p1")
    /\ boot.proc["p2"].pc = "failed" /\ boot.proc["p2"].files = GeneratedBy("p2")
    /\ ~boot.proc["p2"].view.present

\* the loser, started again, serves with the stored pair
C31_RestartWitness ==
    /\ boot.creators = {"p1"}
    /\ boot.proc["p2"].pc = "ok" /\ boot.proc["p2"].files = GeneratedBy("p1")

----------------------------------------------------------------------------
\* the object that was left alone still holds what it held when the copy was made
Untouched(who) ==
    who \notin mem.touched => Contents(Object(who), mem.heap) = mem.before

\* the config maps of the copy and of the original are independent
C32_ConfigIndependent ==
    (mem.phase = "live" /\ mem.copied) =>
        \A who \in {"orig", "copy"} :
            who \notin mem.touched =>
                Contents(Object(who), mem.heap).config = mem.before.config

\* C32: the copy returned by DeepCopy shares no mutable state with the
\* original: adding, removing or changing an entry of the config map or an
\* element of the status condition list of one leaves the other unchanged.
C32_DeepCopyIndependent ==
    (mem.phase = "live" /\ mem.copied) =>
        /\ Untouched("orig")
        /\ Untouched("copy")

====
